---- MODULE Spec2Model ----
(***************************************************************************)
(* GSU Sentinel Cloud (src/src/main.rs): the shared AppState (config,      *)
(* live_status, alerts), the capture directory cloud_storage and the HTTP  *)
(* handlers that read and write them.  Handlers run concurrently on the    *)
(* tokio runtime; every RwLock guard in the source is a temporary or a     *)
(* block-scoped local, so each lock acquisition is one atomic step and a   *)
(* handler is a sequence of such steps.                                    *)
(***************************************************************************)
EXTENDS Integers, Sequences, FiniteSets, TLC

VARIABLES
    config,       \* AppState.config       : RemoteConfig
    live_status,  \* AppState.live_status  : LiveStatus
    alerts,       \* AppState.alerts       : VecDeque<AlertRecord>, front = index 1
    files,        \* directory cloud_storage: file name -> bytes
    now,          \* chrono::Utc::now().timestamp()
    req,          \* per worker: the handler call in flight and its locals
    out,          \* the HTTP response emitted by the latest step (NoResp if none)
    ncalls,       \* history: handler calls started so far
    pushed,       \* history: every AlertRecord given to push_front, in push order
    overlapped,   \* history: some upload started while another was in flight
    lastHb,       \* history: payload and time of the latest heartbeat write
    cfgHist       \* history: every value config has held, oldest first

vars == <<config, live_status, alerts, files, now, req, out,
          ncalls, pushed, overlapped, lastHb, cfgHist>>

-----------------------------------------------------------------------------
(* Bounds of the model *)

NumProcs == 2           \* concurrent handler calls
MaxTime == 7            \* the clock runs from 0 to MaxTime
MaxCalls == 4           \* handler calls started in the state-store specification
MaxConfigWrites == 2    \* update_config calls

Procs == 1..NumProcs

-----------------------------------------------------------------------------
(* Program constants *)

AlertCap == 50          \* if ... len() > 50
StaleAfter == 5         \* last_update.saturating_add(5)

-----------------------------------------------------------------------------
(* Strings are sequences of lexical atoms, so that format! is concatenation *)
(* and String::is_empty / contains can be computed.                         *)

EmptyString == << >>

Min(a, b) == IF a < b THEN a ELSE b

Last(s) == s[Len(s)]

Take(s, n) == SubSeq(s, 1, Min(n, Len(s)))

RECURSIVE Reverse(_)
Reverse(s) == IF s = << >> THEN << >> ELSE Reverse(Tail(s)) \o <<Head(s)>>

-----------------------------------------------------------------------------
(* main: the initial AppState *)

\* pan_step_degrees is held in tenths of a degree (0.5 is 5)
InitConfig ==
    [max_temp_trigger |-> 50, scan_wait_time_sec |-> 5, system_enabled |-> TRUE,
     pan_step_degrees |-> 5, gemini_api_key |-> <<"Some", EmptyString>>]

InitLiveStatus ==
    [last_update |-> 0, turbine_token |-> <<"Waiting...">>, mode |-> "Offline",
     current_angle |-> 0, current_max_temp |-> 0, is_online |-> FALSE]

Idle == [pc |-> "idle"]

\* Workers are interchangeable: a new call takes the lowest idle one.
Free(p) == req[p] = Idle /\ \A q \in 1..(p - 1) : req[q] # Idle

NoResp == [op |-> "none"]

NoHb == [applied |-> FALSE]

Init ==
    /\ config = InitConfig
    /\ live_status = InitLiveStatus
    /\ alerts = << >>
    /\ files = << >>
    /\ now = 0
    /\ req = [p \in Procs |-> Idle]
    /\ out = NoResp
    /\ ncalls = 0
    /\ pushed = << >>
    /\ overlapped = FALSE
    /\ lastHb = NoHb
    /\ cfgHist = <<InitConfig>>

-----------------------------------------------------------------------------
(* Request bodies the clients send *)

\* POST /api/config bodies (Json<RemoteConfig>): whole configurations that
\* differ from the initial one and from each other in several fields.
ConfigInputs ==
    { [max_temp_trigger |-> 80, scan_wait_time_sec |-> 10, system_enabled |-> FALSE,
       pan_step_degrees |-> 20, gemini_api_key |-> <<"Some", <<"key">> >>],
      [max_temp_trigger |-> -1, scan_wait_time_sec |-> 5, system_enabled |-> TRUE,
       pan_step_degrees |-> 10, gemini_api_key |-> <<"None">>] }

\* POST /ingest/heartbeat bodies (Json<LiveStatus>): the robot may send any
\* last_update and is_online, and any mode string.
HeartbeatInputs ==
    { [last_update |-> 99, turbine_token |-> <<"T1">>, mode |-> "Scanning",
       current_angle |-> 45, current_max_temp |-> 30, is_online |-> FALSE],
      [last_update |-> 0, turbine_token |-> <<"T2">>, mode |-> "Lost Connection",
       current_angle |-> 90, current_max_temp |-> 61, is_online |-> TRUE] }

-----------------------------------------------------------------------------
(* The clock *)

Tick ==
    /\ now < MaxTime
    /\ now' = now + 1
    /\ out' = NoResp
    /\ UNCHANGED <<config, live_status, alerts, files, req,
                   ncalls, pushed, overlapped, lastHb, cfgHist>>

-----------------------------------------------------------------------------
(* get_live_status *)

\* StaleView with the comparison off by one (>= for >).
StaleView_inclusive(status, t) ==
    IF t >= status.last_update + StaleAfter
    THEN [status EXCEPT !.is_online = FALSE, !.mode = "Lost Connection"]
    ELSE status

\* The read-time transform applied to the cloned status.
StaleView(status, t) ==
    IF t > status.last_update + StaleAfter
    THEN [status EXCEPT !.is_online = FALSE, !.mode = "Lost Connection"]
    ELSE status

\* let mut status = state.live_status.read().unwrap().clone();
get_live_status_read(p) ==
    /\ Free(p)
    /\ ncalls' = ncalls + 1
    /\ req' = [req EXCEPT ![p] = [pc |-> "live_now", status |-> live_status]]
    /\ out' = NoResp
    /\ UNCHANGED <<config, live_status, alerts, files, now,
                   pushed, overlapped, lastHb, cfgHist>>

\* get_live_status_reply storing the transformed copy back into the state.
get_live_status_reply_store(p) ==
    /\ req[p].pc = "live_now"
    /\ out' = [op |-> "get_live_status", body |-> StaleView(req[p].status, now),
               read |-> req[p].status, at |-> now]
    /\ live_status' = StaleView(req[p].status, now)
    /\ req' = [req EXCEPT ![p] = Idle]
    /\ UNCHANGED <<config, alerts, files, now,
                   ncalls, pushed, overlapped, lastHb, cfgHist>>

\* let now = ...; if now > status.last_update.saturating_add(5) {...}; Json(status)
get_live_status_reply(p) ==
    /\ req[p].pc = "live_now"
    /\ out' = [op |-> "get_live_status", body |-> StaleView(req[p].status, now),
               read |-> req[p].status, at |-> now]
    /\ req' = [req EXCEPT ![p] = Idle]
    /\ UNCHANGED <<config, live_status, alerts, files, now,
                   ncalls, pushed, overlapped, lastHb, cfgHist>>

-----------------------------------------------------------------------------
(* get_config, update_config *)

\* Json(state.config.read().unwrap().clone()): one lock acquisition
get_config ==
    /\ ncalls' = ncalls + 1
    /\ out' = [op |-> "get_config", body |-> config]
    /\ UNCHANGED <<config, live_status, alerts, files, now, req,
                   pushed, overlapped, lastHb, cfgHist>>

\* StoreConfig merging field by field: an absent key keeps the old one.
StoreConfig_merge(old, new_conf) ==
    IF new_conf.gemini_api_key = <<"None">>
    THEN [new_conf EXCEPT !.gemini_api_key = old.gemini_api_key]
    ELSE new_conf

\* *conf = new_conf, under the write lock
StoreConfig(old, new_conf) == new_conf

\* one lock acquisition: the guard conf lives to the end of the function
update_config(new_conf) ==
    /\ Len(cfgHist) <= MaxConfigWrites
    /\ ncalls' = ncalls + 1
    /\ config' = StoreConfig(config, new_conf)
    /\ cfgHist' = Append(cfgHist, new_conf)
    /\ out' = [op |-> "update_config", body |-> "Config updated successfully"]
    /\ UNCHANGED <<live_status, alerts, files, now, req,
                   pushed, overlapped, lastHb>>

-----------------------------------------------------------------------------
(* heartbeat_handler *)

\* StampStatus without the forced is_online.
StampStatus_trust_payload(payload, t) ==
    [payload EXCEPT !.last_update = t]

\* *status = payload; status.last_update = now; status.is_online = true;
StampStatus(payload, t) ==
    [payload EXCEPT !.last_update = t, !.is_online = TRUE]

\* the block holding live_status.write()
heartbeat_handler_status(p, payload) ==
    /\ Free(p)
    /\ ncalls' = ncalls + 1
    /\ live_status' = StampStatus(payload, now)
    /\ lastHb' = [applied |-> TRUE, payload |-> payload, at |-> now]
    /\ req' = [req EXCEPT ![p] = [pc |-> "hb_config", seen |-> Len(cfgHist)]]
    /\ out' = NoResp
    /\ UNCHANGED <<config, alerts, files, now, pushed, overlapped, cfgHist>>

\* let config = state.config.read().unwrap().clone(); Json(config)
ReadConfig(conf) == conf

heartbeat_handler_config(p) ==
    /\ req[p].pc = "hb_config"
    /\ out' = [op |-> "heartbeat", body |-> ReadConfig(config),
               seen |-> req[p].seen]
    /\ req' = [req EXCEPT ![p] = Idle]
    /\ UNCHANGED <<config, live_status, alerts, files, now,
                   ncalls, pushed, overlapped, lastHb, cfgHist>>

-----------------------------------------------------------------------------
(* The state store: heartbeats, configuration writes and status reads *)

Next ==
    \/ Tick
    \/ ncalls < MaxCalls /\ \E p \in Procs : get_live_status_read(p)
    \/ \E p \in Procs : get_live_status_reply(p)
    \/ ncalls < MaxCalls /\ get_config
    \/ ncalls < MaxCalls /\ \E c \in ConfigInputs : update_config(c)
    \/ ncalls < MaxCalls /\ \E p \in Procs : \E s \in HeartbeatInputs :
                                heartbeat_handler_status(p, s)
    \/ \E p \in Procs : heartbeat_handler_config(p)

Spec == Init /\ [][Next]_vars

-----------------------------------------------------------------------------
(* Matrix codec: Array2::<f32>::read_npy and the fold over the matrix *)

NEG_INFINITY == -1000   \* f32::NEG_INFINITY, below every temperature used

\* Bytes of an .npy container: the magic string, then from the header the
\* shape and fortran_order, then the payload values, which are in row-major
\* order unless fortran_order is set (then column-major).
Npy(shape, values) ==
    [magic |-> "NUMPY", shape |-> shape, fortran_order |-> FALSE, values |-> values]

\* The same container written with fortran_order: True.
NpyFortran(shape, values) ==
    [magic |-> "NUMPY", shape |-> shape, fortran_order |-> TRUE, values |-> values]

\* No bytes at all.
NoBytes == [magic |-> "", shape |-> << >>, fortran_order |-> FALSE, values |-> << >>]

\* Bytes that are no .npy container.
Junk == [magic |-> "PK", shape |-> << >>, fortran_order |-> FALSE, values |-> << >>]

\* read_npy: Ok(matrix) when the magic, a 2-D shape and a payload of
\* rows * cols values are found, Err otherwise.  The matrix keeps the
\* payload as its raw buffer, in the memory layout the header names.
read_npy(bytes) ==
    IF /\ bytes.magic = "NUMPY"
       /\ Len(bytes.shape) = 2
       /\ Len(bytes.values) = bytes.shape[1] * bytes.shape[2]
    THEN [ok |-> TRUE, rows |-> bytes.shape[1], cols |-> bytes.shape[2],
          fortran_order |-> bytes.fortran_order, values |-> bytes.values]
    ELSE [ok |-> FALSE]

Max(a, b) == IF a > b THEN a ELSE b

RECURSIVE FoldMax(_, _)
FoldMax(acc, values) ==
    IF values = << >> THEN acc ELSE FoldMax(Max(acc, Head(values)), Tail(values))

\* matrix.fold(f32::NEG_INFINITY, |a, &b| a.max(b))
MatrixMax(matrix) == FoldMax(NEG_INFINITY, matrix.values)

-----------------------------------------------------------------------------
(* upload_handler *)

\* txt.parse().unwrap_or(0.0)
ParseAngle(txt) == IF txt = <<"45.0">> THEN 45 ELSE 0

\* format!("capture_{}_{}.npz", turbine_token, timestamp)
FormatName(turbine_token, timestamp) ==
    <<"capture_">> \o turbine_token \o <<"_", ToString(timestamp), ".npz">>

\* WriteFile reporting success without storing anything.
WriteFile_dropped(dir, name, data) == dir

\* tokio::fs::write(&filepath, &data): creates or replaces the file
WriteFile(dir, name, data) ==
    [n \in DOMAIN dir \cup {name} |-> IF n = name THEN data ELSE dir[n]]

OthersInFlight(p) == \E q \in Procs \ {p} : req[q] # Idle

\* the locals declared at the top of the handler
upload_handler_begin(p) ==
    /\ Free(p)
    /\ ncalls' = ncalls + 1
    /\ req' = [req EXCEPT ![p] =
                 [pc |-> "fields",
                  turbine_token |-> EmptyString, angle |-> 0,
                  file_saved_name |-> EmptyString, temp_max_detected |-> 0,
                  nfields |-> 0, data |-> NoBytes, nstored |-> 0,
                  strayed |-> FALSE, write_failed |-> FALSE,
                  alert_ids |-> << >>, popped |-> FALSE]]
    /\ overlapped' = (overlapped \/ OthersInFlight(p))
    /\ out' = NoResp
    /\ UNCHANGED <<config, live_status, alerts, files, now, pushed, lastHb, cfgHist>>

\* the locals after one dataset_file field whose write succeeded; nstored
\* and strayed are history: the files this call has written, and whether
\* one of them went to another name than the current file_saved_name
AfterDatasetField(l, data, t) ==
    LET matrix == read_npy(data) IN
    [l EXCEPT !.data = data,
              !.file_saved_name = FormatName(l.turbine_token, t),
              !.temp_max_detected = IF matrix.ok THEN MatrixMax(matrix) ELSE @,
              !.nstored = @ + 1,
              !.strayed = \/ l.strayed
                          \/ /\ l.nstored > 0
                             /\ l.file_saved_name # FormatName(l.turbine_token, t),
              !.nfields = @ + 1]

\* one iteration of while let Some(field) = multipart.next_field()
\* io_ok: whether tokio::fs::write succeeds
upload_handler_field(p, field, io_ok) ==
    /\ req[p].pc = "fields"
    /\ LET l == req[p] IN
       CASE field.name = "turbine_token" ->
              /\ req' = [req EXCEPT ![p] = [l EXCEPT !.turbine_token = field.text,
                                                     !.nfields = @ + 1]]
              /\ out' = NoResp
              /\ UNCHANGED files
         [] field.name = "angle" ->
              /\ req' = [req EXCEPT ![p] = [l EXCEPT !.angle = ParseAngle(field.text),
                                                     !.nfields = @ + 1]]
              /\ out' = NoResp
              /\ UNCHANGED files
         [] field.name = "dataset_file" ->
              IF io_ok
              THEN /\ files' = WriteFile(files, FormatName(l.turbine_token, now),
                                         field.data)
                   /\ req' = [req EXCEPT ![p] = AfterDatasetField(l, field.data, now)]
                   /\ out' = NoResp
              ELSE \* return Json("write_error")
                   /\ out' = [op |-> "upload", body |-> "write_error",
                              locals |-> [l EXCEPT
                                  !.data = field.data,
                                  !.file_saved_name = FormatName(l.turbine_token, now),
                                  !.write_failed = TRUE, !.nfields = @ + 1]]
                   /\ req' = [req EXCEPT ![p] = Idle]
                   /\ UNCHANGED files
         [] OTHER ->
              /\ req' = [req EXCEPT ![p] = [l EXCEPT !.nfields = @ + 1]]
              /\ out' = NoResp
              /\ UNCHANGED files
    /\ UNCHANGED <<config, live_status, alerts, now, ncalls, pushed, overlapped,
                   lastHb, cfgHist>>

\* a malformed part: next_field().await.unwrap(), field.name().unwrap() or
\* field.bytes().await.unwrap() panics and the call ends without an answer
\* of the handler
upload_handler_panic(p) ==
    /\ req[p].pc = "fields"
    /\ out' = [op |-> "upload", body |-> "panic", locals |-> req[p]]
    /\ req' = [req EXCEPT ![p] = Idle]
    /\ UNCHANGED <<config, live_status, alerts, files, now, ncalls, pushed,
                   overlapped, lastHb, cfgHist>>

\* AlertRecord { id: Uuid::new_v4(), timestamp: now, turbine_token, max_temp:
\* temp_max_detected, angle, dataset_path: file_saved_name }; the v4 UUID is
\* modelled as a value never issued before.
NewAlert(l, t, uuid) ==
    [id |-> uuid, timestamp |-> t, turbine_token |-> l.turbine_token,
     max_temp |-> l.temp_max_detected, angle |-> l.angle,
     dataset_path |-> l.file_saved_name]

\* VecDeque::push_front
push_front(deque, x) == <<x>> \o deque

\* pop_back taking the front element instead.
pop_back_at_front(deque) == IF deque = << >> THEN deque ELSE Tail(deque)

\* VecDeque::pop_back (None on an empty deque)
pop_back(deque) == IF deque = << >> THEN deque ELSE SubSeq(deque, 1, Len(deque) - 1)

\* HasSavedFile with the guard dropped.
HasSavedFile_unguarded(l) == TRUE

\* the condition guarding the alert: if !file_saved_name.is_empty()
HasSavedFile(l) == l.file_saved_name # EmptyString

\* the end of the multipart stream, then
\* if !file_saved_name.is_empty() { ...; alerts.write().push_front(alert);
upload_handler_finish(p) ==
    /\ req[p].pc = "fields"
    /\ IF HasSavedFile(req[p])
       THEN LET alert == NewAlert(req[p], now, Len(pushed) + 1) IN
            /\ alerts' = push_front(alerts, alert)
            /\ pushed' = Append(pushed, alert)
            /\ req' = [req EXCEPT ![p] = [req[p] EXCEPT !.pc = "len",
                                             !.alert_ids = Append(@, alert.id)]]
            /\ out' = NoResp
       ELSE /\ out' = [op |-> "upload", body |-> "upload_success", locals |-> req[p]]
            /\ req' = [req EXCEPT ![p] = Idle]
            /\ UNCHANGED <<alerts, pushed>>
    /\ UNCHANGED <<config, live_status, files, now, ncalls, overlapped, lastHb, cfgHist>>

\* upload_handler_len with the threshold one too high.
upload_handler_len_lenient(p) ==
    /\ req[p].pc = "len"
    /\ IF Len(alerts) > AlertCap + 1
       THEN /\ req' = [req EXCEPT ![p] = [req[p] EXCEPT !.pc = "pop"]]
            /\ out' = NoResp
       ELSE /\ out' = [op |-> "upload", body |-> "upload_success", locals |-> req[p]]
            /\ req' = [req EXCEPT ![p] = Idle]
    /\ UNCHANGED <<config, live_status, alerts, files, now, ncalls, pushed,
                   overlapped, lastHb, cfgHist>>

\* if state.alerts.read().unwrap().len() > 50
upload_handler_len(p) ==
    /\ req[p].pc = "len"
    /\ IF Len(alerts) > AlertCap
       THEN /\ req' = [req EXCEPT ![p] = [req[p] EXCEPT !.pc = "pop"]]
            /\ out' = NoResp
       ELSE /\ out' = [op |-> "upload", body |-> "upload_success", locals |-> req[p]]
            /\ req' = [req EXCEPT ![p] = Idle]
    /\ UNCHANGED <<config, live_status, alerts, files, now, ncalls, pushed,
                   overlapped, lastHb, cfgHist>>

\* state.alerts.write().unwrap().pop_back(); } } Json("upload_success")
upload_handler_pop(p) ==
    /\ req[p].pc = "pop"
    /\ alerts' = pop_back(alerts)
    /\ out' = [op |-> "upload", body |-> "upload_success",
               locals |-> [req[p] EXCEPT !.popped = TRUE]]
    /\ req' = [req EXCEPT ![p] = Idle]
    /\ UNCHANGED <<config, live_status, files, now, ncalls, pushed, overlapped,
                   lastHb, cfgHist>>

-----------------------------------------------------------------------------
(* get_alerts *)

\* Json(alerts.iter().cloned().collect()): front to back
get_alerts ==
    /\ out' = [op |-> "get_alerts", body |-> alerts]
    /\ UNCHANGED <<config, live_status, alerts, files, now, req, ncalls, pushed,
                   overlapped, lastHb, cfgHist>>

-----------------------------------------------------------------------------
(* The alert ring: the same upload repeated, sequentially or overlapping,   *)
(* until the history has passed its capacity.                               *)

MaxRingCalls == 52      \* uploads started in the ring specification

Grid2x2 == Npy(<<2, 2>>, <<1, 2, 3, 4>>)

RingRequest ==
    << [name |-> "turbine_token", text |-> <<"T1">>],
       [name |-> "angle", text |-> <<"45.0">>],
       [name |-> "dataset_file", data |-> Grid2x2] >>

AllIdle == \A p \in Procs : req[p] = Idle

\* the next field of RingRequest reaches the handler
ring_field(p) ==
    /\ req[p].pc = "fields"
    /\ req[p].nfields < Len(RingRequest)
    /\ upload_handler_field(p, RingRequest[req[p].nfields + 1], TRUE)

\* the multipart stream of RingRequest ends
ring_finish(p) ==
    /\ req[p].pc = "fields"
    /\ req[p].nfields = Len(RingRequest)
    /\ upload_handler_finish(p)

NextRing ==
    \/ ncalls < MaxRingCalls /\ \E p \in Procs : upload_handler_begin(p)
    \/ \E p \in Procs : ring_field(p)
    \/ \E p \in Procs : ring_finish(p)
    \/ \E p \in Procs : upload_handler_len(p)
    \/ \E p \in Procs : upload_handler_pop(p)
    \/ get_alerts

SpecRing == Init /\ [][NextRing]_vars

\* The same uploads run one after another: a client that waits for each
\* answer before it sends the next upload.  get_alerts may come at any time.
NextSeq ==
    \/ ncalls < MaxRingCalls /\ AllIdle /\ \E p \in Procs : upload_handler_begin(p)
    \/ \E p \in Procs : ring_field(p)
    \/ \E p \in Procs : ring_finish(p)
    \/ \E p \in Procs : upload_handler_len(p)
    \/ \E p \in Procs : upload_handler_pop(p)
    \/ get_alerts

SpecSeq == Init /\ [][NextSeq]_vars

-----------------------------------------------------------------------------
(* The ingest pipeline: uploads with any fields in any order, overlapping,  *)
(* with the clock moving and the disk failing.                              *)

MaxFields == 2          \* fields of one multipart request
MaxUploadCalls == 2     \* uploads started in the ingest specification
MaxUploadTime == 1      \* the clock runs from 0 to MaxUploadTime there

UploadFields ==
    { [name |-> "turbine_token", text |-> <<"T1">>],
      [name |-> "turbine_token", text |-> <<"T2">>],
      [name |-> "turbine_token", text |-> <<"..">>],
      [name |-> "angle", text |-> <<"45.0">>],
      [name |-> "angle", text |-> <<"north">>],
      [name |-> "dataset_file", data |-> Grid2x2],
      [name |-> "dataset_file", data |-> Junk],
      [name |-> "comment", text |-> <<"x">>] }

\* The record the i-th of a run of RingRequest uploads at time 0 pushes.
RingAlert(i) ==
    [id |-> i, timestamp |-> 0, turbine_token |-> <<"T1">>, max_temp |-> 4,
     angle |-> 45, dataset_path |-> FormatName(<<"T1">>, 0)]

\* The history n sequential RingRequest uploads leave, newest first.
RingAlerts(n) == [i \in 1..n |-> RingAlert(n + 1 - i)]

\* The ingest specification starts from main's state, or from the state
\* AlertCap - 1 sequential RingRequest uploads leave (reached under SpecRing,
\* see RingStateReached), so that the capacity is within reach.
InitUpload ==
    /\ config = InitConfig
    /\ live_status = InitLiveStatus
    /\ now = 0
    /\ req = [p \in Procs |-> Idle]
    /\ out = NoResp
    /\ ncalls = 0
    /\ overlapped = FALSE
    /\ lastHb = NoHb
    /\ cfgHist = <<InitConfig>>
    /\ \/ /\ alerts = << >>
          /\ pushed = << >>
          /\ files = << >>
       \/ /\ alerts = RingAlerts(AlertCap - 1)
          /\ pushed = [i \in 1..(AlertCap - 1) |-> RingAlert(i)]
          /\ files = WriteFile(<< >>, FormatName(<<"T1">>, 0), Grid2x2)

RingStateReached ==
    /\ \A p \in Procs : req[p] = Idle
    /\ alerts = RingAlerts(AlertCap - 1)
    /\ pushed = [i \in 1..(AlertCap - 1) |-> RingAlert(i)]
    /\ files = WriteFile(<< >>, FormatName(<<"T1">>, 0), Grid2x2)
    /\ ~overlapped

NextUpload ==
    \/ now < MaxUploadTime /\ Tick
    \/ ncalls < MaxUploadCalls /\ \E p \in Procs : upload_handler_begin(p)
    \/ \E p \in Procs : \E field \in UploadFields : \E io_ok \in BOOLEAN :
          /\ req[p].pc = "fields"
          /\ req[p].nfields < MaxFields
          /\ upload_handler_field(p, field, io_ok)
    \/ \E p \in Procs : upload_handler_panic(p)
    \/ \E p \in Procs : upload_handler_finish(p)
    \/ \E p \in Procs : upload_handler_len(p)
    \/ \E p \in Procs : upload_handler_pop(p)

SpecUpload == InitUpload /\ [][NextUpload]_vars

-----------------------------------------------------------------------------
(* Paths and the file system around cloud_storage.  A path is a string, so  *)
(* a sequence of atoms; the atom "/" is the separator, the atom ".." the    *)
(* parent directory.                                                        *)

\* let storage_folder = "cloud_storage": a path relative to the working
\* directory of the process
StorageFolder == <<"cloud_storage">>

\* the working directory of the process, as a list of directory names
WorkDir == << <<"srv">> >>

\* PathBuf::push: an absolute argument replaces the path
PathPush(base, name) ==
    IF name # << >> /\ Head(name) = "/" THEN name ELSE base \o <<"/">> \o name

\* index of the first separator of a path, Len + 1 when it has none
FirstSep(path) ==
    IF \E i \in 1..Len(path) : path[i] = "/"
    THEN CHOOSE i \in 1..Len(path) :
            path[i] = "/" /\ \A j \in 1..(i - 1) : path[j] # "/"
    ELSE Len(path) + 1

\* the components of a path, as the operating system splits it
RECURSIVE Components(_)
Components(path) ==
    IF path = << >> THEN << >>
    ELSE IF Head(path) = "/" THEN Components(Tail(path))
    ELSE LET n == FirstSep(path) IN
         <<SubSeq(path, 1, n - 1)>> \o Components(SubSeq(path, n, Len(path)))

\* the directories that exist: /, /srv, /srv/cloud_storage and /etc; no
\* handler creates or removes a directory
Dirs == { << >>, WorkDir, WorkDir \o <<StorageFolder>>, << <<"etc">> >> }

\* files outside cloud_storage: /etc/passwd (text) and /srv/secret.npy
\* (a 1 x 2 array)
OutsideFiles ==
    (<< <<"etc">>, <<"passwd">> >> :> [magic |-> "root:", shape |-> << >>,
                                       fortran_order |-> FALSE, values |-> << >>])
    @@ (WorkDir \o << <<"secret", ".npy">> >> :> Npy(<<1, 2>>, <<77, 78>>))

NoEntry == <<"ENOENT">>

\* path resolution from directory at: ".." goes to the parent, "." stays,
\* a name goes down; a step from something that is no directory fails
RECURSIVE Walk(_, _)
Walk(at, comps) ==
    IF comps = << >> THEN at
    ELSE IF at \notin Dirs THEN NoEntry
    ELSE LET c == Head(comps) IN
         Walk(IF c = <<"..">>
              THEN (IF at = << >> THEN at ELSE SubSeq(at, 1, Len(at) - 1))
              ELSE IF c = <<".">> THEN at
              ELSE Append(at, c),
              Tail(comps))

Resolve(path) ==
    Walk(IF path # << >> /\ Head(path) = "/" THEN << >> ELSE WorkDir,
         Components(path))

\* what a path names, given the content dir of cloud_storage
Lookup(dir, path) ==
    LET abs == Resolve(path)
        storage == WorkDir \o <<StorageFolder>> IN
    IF abs = NoEntry THEN [kind |-> "none"]
    ELSE IF abs \in Dirs THEN [kind |-> "dir"]
    ELSE IF /\ Len(abs) = Len(storage) + 1
            /\ SubSeq(abs, 1, Len(storage)) = storage
            /\ Last(abs) \in DOMAIN dir
         THEN [kind |-> "file", bytes |-> dir[Last(abs)]]
    ELSE IF abs \in DOMAIN OutsideFiles
         THEN [kind |-> "file", bytes |-> OutsideFiles[abs]]
    ELSE [kind |-> "none"]

\* tokio::fs::read: the bytes of a file; a directory or nothing is an Err
FsRead(dir, path) ==
    LET f == Lookup(dir, path) IN
    IF f.kind = "file" THEN [ok |-> TRUE, bytes |-> f.bytes] ELSE [ok |-> FALSE]

\* File::open: Ok for a file and for a directory (whose reads then fail,
\* so that it holds no bytes for read_npy), Err for nothing
FsOpen(dir, path) ==
    LET f == Lookup(dir, path) IN
    IF f.kind = "file" THEN [ok |-> TRUE, bytes |-> f.bytes]
    ELSE IF f.kind = "dir" THEN [ok |-> TRUE, bytes |-> NoBytes]
    ELSE [ok |-> FALSE]

\* one file-system call issued by a handler
FsAccess(call, path) == [call |-> call, path |-> path]

Range(s) == {s[i] : i \in 1..Len(s)}

-----------------------------------------------------------------------------
(* download_file_handler *)

\* IsUnsafeName without the test for a leading or inner "/".
IsUnsafeName_dots_only(filename) == ".." \in Range(filename)

\* filename.contains("..") || filename.contains('/') || filename.contains('\\')
IsUnsafeName(filename) ==
    \/ ".." \in Range(filename)
    \/ "/" \in Range(filename)
    \/ "\\" \in Range(filename)

download_file_handler(filename) ==
    LET path == PathPush(StorageFolder, filename) IN
    /\ out' = IF IsUnsafeName(filename)
              THEN [op |-> "download", filename |-> filename, status |-> 400,
                    body |-> "Invalid filename", fs |-> << >>]
              ELSE LET r == FsRead(files, path) IN
                   IF r.ok
                   THEN [op |-> "download", filename |-> filename, status |-> 200,
                         body |-> r.bytes, fs |-> <<FsAccess("read", path)>>]
                   ELSE [op |-> "download", filename |-> filename, status |-> 404,
                         body |-> "File not found",
                         fs |-> <<FsAccess("read", path)>>]
    /\ UNCHANGED <<config, live_status, alerts, files, now, req, ncalls, pushed,
                   overlapped, lastHb, cfgHist>>

-----------------------------------------------------------------------------
(* get_matrix_handler *)

INFINITY == 1000        \* f32::INFINITY, above every temperature used

RECURSIVE FoldMin(_, _)
FoldMin(acc, values) ==
    IF values = << >> THEN acc ELSE FoldMin(Min(acc, Head(values)), Tail(values))

\* matrix.fold(f32::INFINITY, |a, &b| a.min(b))
MatrixMin(matrix) == FoldMin(INFINITY, matrix.values)

\* matrix[[r, c]], r and c counted from 0, read from the raw buffer
Element(matrix, r, c) ==
    IF matrix.fortran_order
    THEN matrix.values[c * matrix.rows + r + 1]
    ELSE matrix.values[r * matrix.cols + c + 1]

\* StandardLayout handing out the raw buffer as it is.
StandardLayout_raw(matrix) == matrix.values

\* matrix.as_standard_layout().into_owned().into_raw_vec(): the elements
\* row by row
StandardLayout(matrix) ==
    [i \in 1..(matrix.rows * matrix.cols) |->
        Element(matrix, (i - 1) \div matrix.cols, (i - 1) % matrix.cols)]

ThermalFrameData(matrix) ==
    [width |-> matrix.cols, height |-> matrix.rows,
     min_temp |-> MatrixMin(matrix), max_temp |-> MatrixMax(matrix),
     pixels |-> StandardLayout(matrix)]

NoBody == [width |-> 0, height |-> 0, min_temp |-> 0, max_temp |-> 0,
           pixels |-> << >>]

\* file: what the path named when it was opened (history)
get_matrix_handler(filename, frame_index) ==
    LET path == PathPush(StorageFolder, filename)
        file == FsOpen(files, path)
        matrix == read_npy(IF file.ok THEN file.bytes ELSE NoBytes)
        status == IF ~file.ok THEN 404
                  ELSE IF ~matrix.ok THEN 500
                  ELSE IF frame_index > 0 THEN 400
                  ELSE 200
    IN
    /\ out' = [op |-> "matrix", filename |-> filename, frame_index |-> frame_index,
               status |-> status,
               body |-> IF status = 200 THEN ThermalFrameData(matrix) ELSE NoBody,
               fs |-> <<FsAccess("open", path)>>,
               file |-> Lookup(files, path)]
    /\ UNCHANGED <<config, live_status, alerts, files, now, req, ncalls, pushed,
                   overlapped, lastHb, cfgHist>>

-----------------------------------------------------------------------------
(* get_evolution_data *)

RECURSIVE Sum(_)
Sum(values) == IF values = << >> THEN 0 ELSE Head(values) + Sum(Tail(values))

\* if count > 0.0 { sum / count } else { 0.0 }, kept as a fraction
Average(sum, count) ==
    IF count > 0 THEN [num |-> sum, den |-> count] ELSE [num |-> 0, den |-> 1]

EvolutionPoint(matrix) ==
    [frame_index |-> 0, max_temp |-> MatrixMax(matrix),
     avg_temp |-> Average(Sum(matrix.values), Len(matrix.values))]

\* the handler returns Json(points) in every case: status 200
get_evolution_data(filename) ==
    LET path == PathPush(StorageFolder, filename)
        file == FsOpen(files, path)
        matrix == read_npy(IF file.ok THEN file.bytes ELSE NoBytes)
    IN
    /\ out' = [op |-> "evolution", filename |-> filename, status |-> 200,
               body |-> IF file.ok /\ matrix.ok THEN <<EvolutionPoint(matrix)>>
                        ELSE << >>,
               fs |-> <<FsAccess("open", path)>>,
               file |-> Lookup(files, path)]
    /\ UNCHANGED <<config, live_status, alerts, files, now, req, ncalls, pushed,
                   overlapped, lastHb, cfgHist>>

-----------------------------------------------------------------------------
(* The capture files: uploads one after another store files, and the file   *)
(* endpoints are asked for stored, missing and outside names.               *)

MaxFileCalls == 2       \* uploads started in the capture-file specification
MaxFrame == 2           \* frame_index runs from 0 to MaxFrame

\* [[5,-2,7],[0,9,1]] written column by column
Grid2x3F == NpyFortran(<<2, 3>>, <<5, 0, -2, 9, 7, 1>>)

\* the dataset_file contents the robots upload here
FileData == {Grid2x2, Grid2x3F, Junk}

\* The uploads of this specification are the robot's: the turbine_token
\* field, then one dataset_file field, then the end of the stream.
file_token(p) ==
    /\ req[p].pc = "fields"
    /\ req[p].nfields = 0
    /\ upload_handler_field(p, [name |-> "turbine_token", text |-> <<"T1">>], TRUE)

file_dataset(p, data) ==
    /\ req[p].pc = "fields"
    /\ req[p].nfields = 1
    /\ upload_handler_field(p, [name |-> "dataset_file", data |-> data], TRUE)

file_finish(p) ==
    /\ req[p].pc = "fields"
    /\ req[p].nfields = 2
    /\ upload_handler_finish(p)

\* names asked of the file endpoints (":filename" after percent-decoding)
FileNames ==
    { FormatName(<<"T1">>, 0),
      FormatName(EmptyString, 0),
      <<"missing", ".npz">>,
      <<"..", "/", "..", "/", "etc", "/", "passwd">>,
      <<"..", "/", "secret", ".npy">>,
      <<"/", "etc", "/", "passwd">>,
      <<"..", "\\", "x">>,
      <<"..">> }

NextFiles ==
    \/ ncalls < MaxFileCalls /\ AllIdle /\ \E p \in Procs : upload_handler_begin(p)
    \/ \E p \in Procs : file_token(p)
    \/ \E p \in Procs : \E data \in FileData : file_dataset(p, data)
    \/ \E p \in Procs : file_finish(p)
    \/ \E p \in Procs : upload_handler_len(p)
    \/ \E name \in FileNames : download_file_handler(name)
    \/ \E name \in FileNames : \E i \in 0..MaxFrame : get_matrix_handler(name, i)
    \/ \E name \in FileNames : get_evolution_data(name)

SpecFiles == Init /\ [][NextFiles]_vars

-----------------------------------------------------------------------------
(* The three locks.  Here every handler is taken apart into the steps that  *)
(* acquire a guard, use the guarded value and drop the guard, in the order  *)
(* and with the guard lifetimes of the source: a guard that is a temporary  *)
(* of a statement or of an if condition is dropped at its end, a guard      *)
(* bound by let at the end of its block.                                    *)

MaxLockCalls == 3       \* handler calls started in the lock specification

Acquire(lock, mode) == [do |-> "acquire", lock |-> lock, mode |-> mode]

Use(effect, lock, mode) == [do |-> effect, lock |-> lock, mode |-> mode]

Release(lock, mode) == [do |-> "release", lock |-> lock, mode |-> mode]

\* if <condition> { ... }: skips the rest of the handler when the len()
\* read before did not exceed the capacity
Branch == [do |-> "branch", lock |-> "", mode |-> ""]

LockOps ==
    {"get_live_status", "get_config", "update_config", "get_alerts",
     "heartbeat", "upload"}

\* Program with heartbeat_handler keeping its live_status guard to the end
\* of the function.
Program_nested(op) ==
    CASE op = "get_live_status" ->
           << Acquire("live_status", "read"),
              Use("clone_status", "live_status", "read"),
              Release("live_status", "read") >>
      [] op = "get_config" ->
           << Acquire("config", "read"),
              Use("clone_config", "config", "read"),
              Release("config", "read") >>
      [] op = "update_config" ->
           << Acquire("config", "write"),
              Use("store_config", "config", "write"),
              Release("config", "write") >>
      [] op = "get_alerts" ->
           << Acquire("alerts", "read"),
              Use("collect", "alerts", "read"),
              Release("alerts", "read") >>
      [] op = "heartbeat" ->
           << Acquire("live_status", "write"),
              Use("store_status", "live_status", "write"),
              Acquire("config", "read"),
              Use("clone_config", "config", "read"),
              Release("config", "read"),
              Release("live_status", "write") >>
      [] op = "upload" ->
           << Acquire("alerts", "write"),
              Use("push", "alerts", "write"),
              Release("alerts", "write"),
              Acquire("alerts", "read"),
              Use("len", "alerts", "read"),
              Release("alerts", "read"),
              Branch,
              Acquire("alerts", "write"),
              Use("pop", "alerts", "write"),
              Release("alerts", "write") >>

\* the lock steps of each handler, in source order
Program(op) ==
    CASE op = "get_live_status" ->      \* line 263: temporary of the let statement
           << Acquire("live_status", "read"),
              Use("clone_status", "live_status", "read"),
              Release("live_status", "read") >>
      [] op = "get_config" ->           \* line 273
           << Acquire("config", "read"),
              Use("clone_config", "config", "read"),
              Release("config", "read") >>
      [] op = "update_config" ->        \* lines 280-288: conf lives to the end
           << Acquire("config", "write"),
              Use("store_config", "config", "write"),
              Release("config", "write") >>
      [] op = "get_alerts" ->           \* lines 292-293
           << Acquire("alerts", "read"),
              Use("collect", "alerts", "read"),
              Release("alerts", "read") >>
      [] op = "heartbeat" ->            \* block 322-327, then line 328
           << Acquire("live_status", "write"),
              Use("store_status", "live_status", "write"),
              Release("live_status", "write"),
              Acquire("config", "read"),
              Use("clone_config", "config", "read"),
              Release("config", "read") >>
      [] op = "upload" ->               \* lines 378, 379, 380
           << Acquire("alerts", "write"),
              Use("push", "alerts", "write"),
              Release("alerts", "write"),
              Acquire("alerts", "read"),
              Use("len", "alerts", "read"),
              Release("alerts", "read"),
              Branch,
              Acquire("alerts", "write"),
              Use("pop", "alerts", "write"),
              Release("alerts", "write") >>

\* the guards worker q holds, as <<lock, mode>> pairs
HeldBy(q) == IF req[q].pc = "locks" THEN req[q].held ELSE {}

\* RwLock: a reader waits for a writer, a writer for everybody; the lock is
\* not reentrant, so the guards of the caller itself count as well
CanAcquire(lock, mode) ==
    \A q \in Procs :
        /\ <<lock, "write">> \notin HeldBy(q)
        /\ mode = "write" => <<lock, "read">> \notin HeldBy(q)

\* the locals of upload_handler when the multipart stream of RingRequest
\* has ended
RingLocals ==
    [turbine_token |-> <<"T1">>, angle |-> 45,
     file_saved_name |-> FormatName(<<"T1">>, 0), temp_max_detected |-> 4]

\* the instruction worker p is at
Instr(p) == Program(req[p].op)[req[p].ip]

\* a call arrives; input is its request body (the LiveStatus of a heartbeat,
\* the RemoteConfig of update_config, nothing otherwise)
lock_begin(p, op, input) ==
    /\ Free(p)
    /\ ncalls' = ncalls + 1
    /\ req' = [req EXCEPT ![p] = [pc |-> "locks", op |-> op, ip |-> 1,
                                  held |-> {}, input |-> input,
                                  val |-> << >>, over |-> FALSE]]
    /\ overlapped' = (overlapped \/ (op = "upload" /\ OthersInFlight(p)))
    /\ out' = NoResp
    /\ UNCHANGED <<config, live_status, alerts, files, now, pushed, lastHb, cfgHist>>

\* .read().unwrap() / .write().unwrap() returns the guard
lock_acquire(p) ==
    /\ req[p].pc = "locks"
    /\ req[p].ip <= Len(Program(req[p].op))
    /\ Instr(p).do = "acquire"
    /\ CanAcquire(Instr(p).lock, Instr(p).mode)
    /\ req' = [req EXCEPT ![p].held = @ \cup {<<Instr(p).lock, Instr(p).mode>>},
                          ![p].ip = @ + 1]
    /\ out' = NoResp
    /\ UNCHANGED <<config, live_status, alerts, files, now, ncalls, pushed,
                   overlapped, lastHb, cfgHist>>

\* the statement that works through the guard
lock_use(p) ==
    /\ req[p].pc = "locks"
    /\ req[p].ip <= Len(Program(req[p].op))
    /\ Instr(p).do \notin {"acquire", "release", "branch"}
    /\ <<Instr(p).lock, Instr(p).mode>> \in req[p].held
    /\ LET e == Instr(p).do
           l == req[p]
           alert == NewAlert(RingLocals, now, Len(pushed) + 1) IN
       /\ live_status' = IF e = "store_status" THEN StampStatus(l.input, now)
                         ELSE live_status
       /\ lastHb' = IF e = "store_status"
                    THEN [applied |-> TRUE, payload |-> l.input, at |-> now]
                    ELSE lastHb
       /\ config' = IF e = "store_config" THEN StoreConfig(config, l.input)
                    ELSE config
       /\ cfgHist' = IF e = "store_config" THEN Append(cfgHist, l.input)
                     ELSE cfgHist
       /\ alerts' = CASE e = "push" -> push_front(alerts, alert)
                      [] e = "pop" -> pop_back(alerts)
                      [] OTHER -> alerts
       /\ pushed' = IF e = "push" THEN Append(pushed, alert) ELSE pushed
       /\ req' = [req EXCEPT
                    ![p].ip = @ + 1,
                    ![p].over = IF e = "len" THEN Len(alerts) > AlertCap ELSE @,
                    ![p].val = CASE e = "clone_status" -> <<StaleView(live_status, now)>>
                                 [] e = "clone_config" -> <<ReadConfig(config)>>
                                 [] e = "collect" -> alerts
                                 [] OTHER -> @]
    /\ out' = NoResp
    /\ UNCHANGED <<files, now, ncalls, overlapped>>

\* the guard goes out of scope
lock_release(p) ==
    /\ req[p].pc = "locks"
    /\ req[p].ip <= Len(Program(req[p].op))
    /\ Instr(p).do = "release"
    /\ req' = [req EXCEPT ![p].held = @ \ {<<Instr(p).lock, Instr(p).mode>>},
                          ![p].ip = @ + 1]
    /\ out' = NoResp
    /\ UNCHANGED <<config, live_status, alerts, files, now, ncalls, pushed,
                   overlapped, lastHb, cfgHist>>

\* if ... len() > 50 { ... }: the block is entered or skipped
lock_branch(p) ==
    /\ req[p].pc = "locks"
    /\ req[p].ip <= Len(Program(req[p].op))
    /\ Instr(p).do = "branch"
    /\ req' = [req EXCEPT ![p].ip = IF req[p].over THEN @ + 1
                                    ELSE Len(Program(req[p].op)) + 1]
    /\ out' = NoResp
    /\ UNCHANGED <<config, live_status, alerts, files, now, ncalls, pushed,
                   overlapped, lastHb, cfgHist>>

\* the handler returns its Json answer
lock_reply(p) ==
    /\ req[p].pc = "locks"
    /\ req[p].ip = Len(Program(req[p].op)) + 1
    /\ out' = [op |-> req[p].op, body |-> req[p].val, held |-> req[p].held]
    /\ req' = [req EXCEPT ![p] = Idle]
    /\ UNCHANGED <<config, live_status, alerts, files, now, ncalls, pushed,
                   overlapped, lastHb, cfgHist>>

\* one step of the call worker p runs
lock_step(p) ==
    \/ lock_acquire(p)
    \/ lock_use(p)
    \/ lock_release(p)
    \/ lock_branch(p)
    \/ lock_reply(p)

\* the request body that goes with an operation
LockInputs(op) ==
    CASE op = "heartbeat" -> HeartbeatInputs
      [] op = "update_config" -> ConfigInputs
      [] OTHER -> {<< >>}

NextLocks ==
    \/ ncalls < MaxLockCalls /\ \E p \in Procs : \E op \in LockOps :
          \E input \in LockInputs(op) : lock_begin(p, op, input)
    \/ \E p \in Procs : lock_acquire(p)
    \/ \E p \in Procs : lock_use(p)
    \/ \E p \in Procs : lock_release(p)
    \/ \E p \in Procs : lock_branch(p)
    \/ \E p \in Procs : lock_reply(p)

\* The tokio runtime runs every task that can run, and a thread that waits
\* for a lock is woken when the lock is free: a call whose next step stays
\* possible takes it.
LockFairness == \A p \in Procs : WF_vars(lock_step(p))

SpecLocks == InitUpload /\ [][NextLocks]_vars /\ LockFairness

-----------------------------------------------------------------------------
(* Claims about the state store, checked under Spec *)

\* C4: get_live_status answers is_online = FALSE and mode = "Lost Connection"
\* exactly when the time it reads is more than 5 seconds after the
\* last_update it cloned, whatever the cloned is_online and mode are;
\* otherwise it answers the cloned status unchanged, which after a heartbeat
\* has is_online = TRUE and the mode the robot reported.  Before any
\* heartbeat it answers is_online = FALSE.
C4_StaleExactlyAfterFiveSeconds ==
    out.op = "get_live_status" =>
        LET stale == out.at > out.read.last_update + 5 IN
        /\ (out.body.is_online = FALSE /\ out.body.mode = "Lost Connection") <=> stale
        /\ stale => out.body = [out.read EXCEPT !.is_online = FALSE,
                                                !.mode = "Lost Connection"]
        /\ ~stale => out.body = out.read
        /\ (~stale /\ out.read # InitLiveStatus) =>
              /\ out.body.is_online = TRUE
              /\ \E s \in HeartbeatInputs :
                    /\ out.body.mode = s.mode
                    /\ out.body.turbine_token = s.turbine_token
        /\ out.read = InitLiveStatus => out.body.is_online = FALSE

\* A stale answer one second past the window for a stored status that says
\* online, the answer differing from the stored mode.
C4_Witness ==
    /\ out.op = "get_live_status"
    /\ out.at = out.read.last_update + 6
    /\ out.read.is_online = TRUE
    /\ out.read.mode = "Scanning"
    /\ out.body.mode = "Lost Connection"

get_live_status_step ==
    \E p \in Procs : get_live_status_read(p) \/ get_live_status_reply(p)

\* C5: no step of get_live_status changes the stored LiveStatus, the
\* configuration, the alert history or the record of the last heartbeat, so
\* the stored last_update, mode and is_online stay the ones the last
\* heartbeat wrote.
C5_LiveStatusReadOnly ==
    [][get_live_status_step =>
         /\ live_status' = live_status
         /\ config' = config
         /\ alerts' = alerts
         /\ lastHb.applied =>
               /\ live_status'.last_update = lastHb.at
               /\ live_status'.mode = lastHb.payload.mode
               /\ live_status'.is_online = TRUE]_vars

\* A stale answer has just been given while the stored status still says
\* online with the last heartbeat's time and mode.
C5_Witness ==
    /\ out.op = "get_live_status"
    /\ out.body.is_online = FALSE
    /\ lastHb.applied
    /\ live_status.is_online = TRUE
    /\ live_status.mode = "Scanning"
    /\ live_status.last_update = lastHb.at
    /\ now > live_status.last_update + 5

\* C6: once a heartbeat has been applied, the stored LiveStatus is the
\* payload of the latest heartbeat write taken whole, with last_update the
\* server time of that write and is_online TRUE, whatever the payload
\* carried for these two; is_online stays TRUE in every later state.
C6_HeartbeatReplacesWhole ==
    lastHb.applied =>
        /\ live_status.is_online = TRUE
        /\ live_status.last_update = lastHb.at
        /\ lastHb.at <= now
        /\ \A f \in {"turbine_token", "mode", "current_angle", "current_max_temp"} :
              live_status[f] = lastHb.payload[f]
        /\ \E s \in HeartbeatInputs :
              live_status = [s EXCEPT !.last_update = lastHb.at, !.is_online = TRUE]

\* Two heartbeats overlap, the later write carried is_online = FALSE and a
\* last_update that is not the server time.
C6_Witness ==
    /\ \E p, q \in Procs : p # q /\ req[p].pc = "hb_config" /\ req[q].pc = "hb_config"
    /\ lastHb.applied
    /\ lastHb.payload.is_online = FALSE
    /\ lastHb.payload.last_update # lastHb.at
    /\ live_status.turbine_token = <<"T1">>
    /\ now > 0

\* C7: a heartbeat in flight can always complete; its answer is the stored
\* RemoteConfig at its config read, which is the whole value of the latest
\* completed update_config (the initial configuration if none), never a
\* mixture, and not older than what was stored when the heartbeat started.
\* The stored configuration changes only by update_config.
C7_HeartbeatReturnsStoredConfig ==
    /\ config = Last(cfgHist)
    /\ config \in {InitConfig} \cup ConfigInputs
    /\ \A p \in Procs : req[p].pc = "hb_config" => ENABLED heartbeat_handler_config(p)
    /\ out.op = "heartbeat" =>
          /\ out.body = config
          /\ out.body = Last(cfgHist)
          /\ out.seen <= Len(cfgHist)

\* A heartbeat answers the configuration written by an update_config that
\* completed between its status write and its config read.
C7_Witness ==
    /\ out.op = "heartbeat"
    /\ out.seen < Len(cfgHist)
    /\ out.body = Last(cfgHist)
    /\ out.body # InitConfig
    /\ out.body.gemini_api_key = <<"None">>

-----------------------------------------------------------------------------
(* Claims about the alert ring: C1 and C2 under SpecRing, C3 under SpecSeq *)

\* The n most recently pushed records, newest first.
NewestFirst(n) == Take(Reverse(pushed), n)

\* C1: in every reachable state the alert history holds at most 50 records,
\* and no get_alerts answer holds more than 50.
C1_AlertsAtMostFifty ==
    /\ Len(alerts) <= 50
    /\ out.op = "get_alerts" => Len(out.body) <= 50

\* C2: pop_back runs only when the history holds more than 50 records, and
\* once all uploads have completed after N pushes the history is exactly the
\* min(N, 50) most recently pushed records.
C2_EvictsOnlyOnOverflow ==
    /\ \A p \in Procs : req[p].pc = "pop" => Len(alerts) > 50
    /\ AllIdle => alerts = NewestFirst(Min(Len(pushed), 50))

\* C3: when no two uploads have overlapped, a get_alerts issued after k
\* completed uploads (none in flight) answers the min(k, 50) most recent records, newest
\* first; from the 51st upload on the first record is gone and the latest
\* one is at the head.
C3_SequentialNewestFirst ==
    (~overlapped /\ AllIdle /\ out.op = "get_alerts") =>
        LET k == Len(pushed) IN
        /\ out.body = NewestFirst(Min(k, 50))
        /\ Len(out.body) = Min(k, 50)
        /\ \A i \in 1..Len(out.body) : out.body[i] = pushed[k + 1 - i]
        /\ k >= 51 =>
              /\ out.body[1] = pushed[k]
              /\ \A i \in 1..Len(out.body) : out.body[i].id # pushed[1].id

\* get_alerts after 51 uploads run one after another: 50 records, the 51st
\* at the head, the 2nd at the back.
C3_Witness ==
    /\ ~overlapped
    /\ AllIdle
    /\ out.op = "get_alerts"
    /\ Len(pushed) = 51
    /\ Len(out.body) = 50
    /\ out.body[1].id = 51
    /\ out.body[50].id = 2

-----------------------------------------------------------------------------
(* Claims about the ingest pipeline, checked under SpecUpload *)

\* a dataset_file field was read by the call with these locals
SawDatasetFile(l) == l.nstored > 0 \/ l.write_failed

\* C8: an upload pushes an AlertRecord only if it read a dataset_file field
\* and every write of it succeeded; an upload without a dataset_file field,
\* and one whose write failed, pushes nothing and evicts nothing, and the
\* latter does not answer "upload_success".
C8_AlertOnlyAfterStoredFile ==
    /\ \A p \in Procs :
          /\ req[p].pc = "fields" => req[p].alert_ids = << >>
          /\ req[p].pc \in {"len", "pop"} =>
                /\ Len(req[p].alert_ids) = 1
                /\ req[p].nstored > 0
                /\ ~req[p].write_failed
                /\ req[p].file_saved_name \in DOMAIN files
    /\ out.op = "upload" =>
          LET l == out.locals IN
          /\ l.alert_ids # << >> => (l.nstored > 0 /\ ~l.write_failed)
          /\ ~SawDatasetFile(l) => (l.alert_ids = << >> /\ ~l.popped)
          /\ l.write_failed =>
                /\ out.body # "upload_success"
                /\ l.alert_ids = << >>
                /\ ~l.popped
          /\ \A i \in 1..Len(pushed) :
                pushed[i].dataset_path # EmptyString

\* An upload stored a first dataset_file, failed to write a second one and
\* answered write_error, the history being the 49 records it started with.
C8_Witness ==
    /\ out.op = "upload"
    /\ out.body = "write_error"
    /\ out.locals.nstored = 1
    /\ out.locals.write_failed
    /\ Len(pushed) = AlertCap - 1
    /\ alerts = RingAlerts(AlertCap - 1)

\* C9: every upload that read a dataset_file field and answered
\* upload_success pushed exactly one AlertRecord, and afterwards exactly one
\* file has been written by it, at capture_<turbine_token>_<timestamp>.npz
\* for the turbine_token of the request, holding the uploaded bytes.
C9_OneRecordOneFile ==
    (out.op = "upload" /\ out.body = "upload_success" /\ out.locals.nstored > 0) =>
        LET l == out.locals IN
        /\ Len(l.alert_ids) = 1
        /\ ~l.strayed
        /\ \E t \in 0..now : l.file_saved_name = FormatName(l.turbine_token, t)
        /\ l.file_saved_name \in DOMAIN files
        /\ files[l.file_saved_name] = l.data

\* C10: a well-formed upload whose dataset_file bytes were stored but are
\* not a decodable 2-D array still answers upload_success and pushes exactly
\* one AlertRecord, whose max_temp is 0.
C10_UndecodableGivesZero ==
    (out.op = "upload" /\ out.body # "panic" /\ out.locals.nstored > 0
        /\ ~out.locals.write_failed /\ ~read_npy(out.locals.data).ok) =>
        LET l == out.locals IN
        /\ out.body = "upload_success"
        /\ Len(l.alert_ids) = 1
        /\ pushed[l.alert_ids[1]].max_temp = 0

-----------------------------------------------------------------------------
(* Claims about the file endpoints, checked under SpecFiles *)

\* the name contains "..", "/" or "\"
HasTraversal(filename) ==
    \E i \in 1..Len(filename) : filename[i] \in {"..", "/", "\\"}

ClientError == 400..499

ServerError == 500..599

\* C11: download_file_handler answers every filename that contains "..",
\* "/" or "\" with a client error and issues no file-system call for it.
C11_DownloadRejectsUnsafeNames ==
    (out.op = "download" /\ HasTraversal(out.filename)) =>
        /\ out.status \in ClientError
        /\ out.fs = << >>

\* The download of ../../etc/passwd, a file that exists, is refused without
\* a file-system call.
C11_Witness ==
    /\ out.op = "download"
    /\ out.filename = <<"..", "/", "..", "/", "etc", "/", "passwd">>
    /\ Lookup(files, PathPush(StorageFolder, out.filename)).kind = "file"
    /\ out.status = 400
    /\ out.fs = << >>

\* C12: get_matrix_handler answers every filename that contains ".." or a
\* path separator with a client error and opens no file for it.
C12_MatrixRejectsUnsafeNames ==
    (out.op = "matrix" /\ HasTraversal(out.filename)) =>
        /\ out.status \in ClientError
        /\ out.fs = << >>

\* C14: every matrix request with frame_index # 0 is answered with a client
\* error and without heat-map data, whatever the named file is; heat-map
\* data comes only with frame_index = 0.
C14_OnlyFrameZero ==
    out.op = "matrix" =>
        /\ out.frame_index # 0 => (out.status \in ClientError /\ out.body = NoBody)
        /\ (out.status = 200 \/ out.body # NoBody) => out.frame_index = 0

\* C15: when the named file exists and is not a decodable 2-D array the
\* matrix and the evolution endpoint answer a server error, when it does not
\* exist a client error, and in neither case a success.
C15_DecodeAndMissingErrors ==
    out.op \in {"matrix", "evolution"} =>
        /\ (out.file.kind = "file" /\ ~read_npy(out.file.bytes).ok) =>
              out.status \in ServerError
        /\ out.file.kind = "none" => out.status \in ClientError

\* the value at row r, column c (from 0) of the grid an .npy container holds
GridValue(bytes, r, c) ==
    IF bytes.fortran_order
    THEN bytes.values[c * bytes.shape[1] + r + 1]
    ELSE bytes.values[r * bytes.shape[2] + c + 1]

\* C17: for a file holding a non-empty rows x cols grid the matrix endpoint
\* at frame 0 answers height = rows, width = cols, pixels the grid row by
\* row (pixels[r * width + c] the value at row r, column c), min_temp the
\* smallest and max_temp the largest value; [[1,2],[3,4]] gives width 2,
\* height 2, min_temp 1, max_temp 4, pixels [1,2,3,4].
C17_MatrixRowMajor ==
    (/\ out.op = "matrix"
     /\ out.frame_index = 0
     /\ out.file.kind = "file"
     /\ read_npy(out.file.bytes).ok
     /\ out.file.bytes.values # << >>) =>
        LET bytes == out.file.bytes
            rows == bytes.shape[1]
            cols == bytes.shape[2]
            body == out.body IN
        /\ out.status = 200
        /\ body.height = rows
        /\ body.width = cols
        /\ Len(body.pixels) = body.width * body.height
        /\ \A r \in 0..(rows - 1) : \A c \in 0..(cols - 1) :
              body.pixels[r * body.width + c + 1] = GridValue(bytes, r, c)
        /\ body.min_temp \in Range(bytes.values)
        /\ body.max_temp \in Range(bytes.values)
        /\ \A v \in Range(bytes.values) : body.min_temp <= v /\ v <= body.max_temp
        /\ bytes = Grid2x2 =>
              body = [width |-> 2, height |-> 2, min_temp |-> 1, max_temp |-> 4,
                      pixels |-> <<1, 2, 3, 4>>]
        /\ bytes = Grid2x3F =>
              body = [width |-> 3, height |-> 2, min_temp |-> -2, max_temp |-> 9,
                      pixels |-> <<5, -2, 7, 0, 9, 1>>]

\* An upload with turbine_token T1 stored the grid [[1,2],[3,4]] and recorded
\* its alert; the matrix endpoint at frame 0 of the recorded dataset_path
\* answers width 2, height 2, min 1, max 4, pixels [1,2,3,4].
C17_Witness ==
    /\ out.op = "matrix"
    /\ out.frame_index = 0
    /\ out.status = 200
    /\ alerts # << >>
    /\ out.filename = alerts[1].dataset_path
    /\ alerts[1].turbine_token = <<"T1">>
    /\ files[out.filename] = Grid2x2
    /\ out.body = [width |-> 2, height |-> 2, min_temp |-> 1, max_temp |-> 4,
                   pixels |-> <<1, 2, 3, 4>>]

-----------------------------------------------------------------------------
(* Further claims about the ingest pipeline, checked under SpecUpload *)

\* C13: no file is written under a name that contains "..", "/" or "\",
\* and no AlertRecord carries such a name: an upload whose turbine_token
\* contains one of them when the file is saved stores nothing and records
\* nothing.
C13_SaveRejectsUnsafeNames ==
    /\ \A name \in DOMAIN files : ~HasTraversal(name)
    /\ \A i \in 1..Len(pushed) : ~HasTraversal(pushed[i].dataset_path)

\* C18: the dataset_path of every AlertRecord of the history is
\* capture_<turbine_token>_<unix timestamp>.npz for the turbine_token of the
\* same record, in whatever order the fields arrived.
C18_PathFromOwnToken ==
    \A i \in 1..Len(alerts) :
        \E t \in 0..now :
            alerts[i].dataset_path = FormatName(alerts[i].turbine_token, t)

\* C20: every AlertRecord of the history has a dataset_path that names a
\* file of the storage directory, written before the record was pushed, and
\* no step removes a file.
C20_RecordsNameStoredFiles ==
    /\ [](/\ \A i \in 1..Len(alerts) : alerts[i].dataset_path \in DOMAIN files
          /\ \A p \in Procs :
                (req[p].pc = "fields" /\ HasSavedFile(req[p])) =>
                    req[p].file_saved_name \in DOMAIN files)
    /\ [][DOMAIN files \subseteq DOMAIN files']_vars

\* An upload has just recorded an alert whose file is stored, while another
\* stored file has no record.
C20_Witness ==
    /\ out.op = "upload"
    /\ out.body = "upload_success"
    /\ out.locals.alert_ids # << >>
    /\ alerts[1].id = out.locals.alert_ids[1]
    /\ alerts[1].dataset_path \in DOMAIN files
    /\ \E name \in DOMAIN files :
          \A i \in 1..Len(alerts) : alerts[i].dataset_path # name

-----------------------------------------------------------------------------
(* Further claims about the alert ring, checked under SpecRing *)

\* the uploads between their push_front and the end of their evict step
Evicting == {p \in Procs : req[p].pc \in {"len", "pop"}}

\* C19: whenever no upload is between its push_front and the end of its
\* evict step the history holds at most 50 records, and at any time it
\* holds at most 50 plus the number of uploads that are in between.
C19_QuiescentAtMostFifty ==
    /\ Evicting = {} => Len(alerts) <= 50
    /\ Len(alerts) <= 50 + Cardinality(Evicting)

\* All uploads have completed after two of them overlapped at the capacity
\* and both evicted: 51 pushes have left 49 records.
C19_Witness ==
    /\ Evicting = {}
    /\ AllIdle
    /\ overlapped
    /\ Len(pushed) = 51
    /\ Len(alerts) = 49

-----------------------------------------------------------------------------
(* Claim about the locks, checked under SpecLocks *)

InFlight == {p \in Procs : req[p] # Idle}

\* C16: no call holds two of the three locks at a time, none asks for a
\* lock it still holds a guard on, and every guard is dropped before the
\* answer; whenever calls are in flight one of them can take a step (no
\* deadlock), and every started call completes.
C16_NoLockNesting ==
    /\ [](/\ \A p \in Procs : Cardinality(HeldBy(p)) <= 1
          /\ \A p \in InFlight :
                (req[p].ip <= Len(Program(req[p].op)) /\ Instr(p).do = "acquire") =>
                    \A m \in {"read", "write"} : <<Instr(p).lock, m>> \notin HeldBy(p)
          /\ out.op \in LockOps => out.held = {}
          /\ InFlight # {} => \E p \in InFlight : ENABLED lock_step(p))
    /\ \A p \in Procs : (req[p] # Idle) ~> (req[p] = Idle)

\* Two uploads have pushed past the capacity: one has seen len() > 50 and
\* waits for the alerts write lock of its pop_back, which it cannot get while
\* the other holds the read guard of its own len().
C16_Witness ==
    /\ \E p, q \in Procs :
          /\ p # q
          /\ req[p].pc = "locks" /\ req[q].pc = "locks"
          /\ req[p].op = "upload" /\ req[p].ip = 8
          /\ req[q].op = "upload" /\ <<"alerts", "read">> \in HeldBy(q)
          /\ ~ENABLED lock_acquire(p)
    /\ Len(alerts) = AlertCap + 1

====
